---- MODULE Spec2Model ----
(***************************************************************************)
(* The upload-and-render workflow of src/src/App.js: the React component   *)
(* App with its state hooks (file, loading, result, error,                 *)
(* processingMethod), the handlers handleFileChange and handleUpload, and  *)
(* the continuations of the async handleUpload after each await.           *)
(*                                                                         *)
(* JavaScript values are tagged records: [t |-> "null"], [t |-> "str", s], *)
(* [t |-> "obj", f] with f the function from property names to values, &c. *)
(* A template literal is the sequence of its fragments ("parts").          *)
(***************************************************************************)
EXTENDS Integers, Sequences, FiniteSets, Bags, TLC

(* file, loading, result, error, processingMethod: the five useState      *)
(* hooks of App.  requests: the invocations of handleUpload suspended at   *)
(* an await.  last: history variable, the handler or continuation that ran *)
(* last, the file it was given or was started with, and the state setters  *)
(* it called, in order.                                                    *)
VARIABLES file, loading, result, error, processingMethod, requests, last

vars == <<file, loading, result, error, processingMethod, requests, last>>

(* Number of handleUpload invocations that may be suspended at an await at *)
(* the same time (the code itself has no such limit).                      *)
MaxInFlight == 2

-----------------------------------------------------------------------------
(* JavaScript values *)

null == [t |-> "null"]

undefined == [t |-> "undefined"]

Str(s) == [t |-> "str", s |-> s]

Num(n) == [t |-> "num", n |-> n]

Bool(b) == [t |-> "bool", b |-> b]

NoProps == [k \in {} |-> null]

Obj(f) == [t |-> "obj", f |-> f]

Arr(a) == [t |-> "arr", a |-> a, f |-> NoProps]

FileHandle(name) == [t |-> "file", name |-> name]

(* an Error object / a string built by a template literal *)
Msg(parts) == [t |-> "msg", parts |-> parts]

(* ToBoolean: the test behind !x, x && ..., if (x) *)
Truthy(v) ==
  CASE v.t = "null" -> FALSE
    [] v.t = "undefined" -> FALSE
    [] v.t = "str" -> v.s # ""
    [] v.t = "num" -> v.n # 0
    [] v.t = "bool" -> v.b
    [] v.t = "msg" -> v.parts # <<>>
    [] OTHER -> TRUE

(* the typeof operator *)
TypeOf(v) ==
  CASE v.t = "undefined" -> "undefined"
    [] v.t = "str" -> "string"
    [] v.t = "num" -> "number"
    [] v.t = "bool" -> "boolean"
    [] OTHER -> "object"

(* property read data.k: undefined when the property is missing *)
Get(v, k) == IF k \in DOMAIN v.f THEN v.f[k] ELSE undefined

(* property write data.k = w, in place *)
Put(v, k, w) ==
  [v EXCEPT !.f = [j \in (DOMAIN v.f) \cup {k} |-> IF j = k THEN w ELSE v.f[j]]]

(* ${v} inside a template literal, for the values that reach it *)
Interp(v) == IF v.t = "str" THEN v.s ELSE ToString(v)

-----------------------------------------------------------------------------
(* Inputs: what the user can select and what the network can answer *)

FileNames == {"a.pdf", "b.png"}

(* event.target.files[0]: a handle, or undefined when the picker is cancelled *)
SelectedFiles == {FileHandle(n) : n \in FileNames} \cup {undefined}

ProcessingMethods == {"ai", "traditional"}

(* rejection reasons of fetch() *)
TransportErrors == {Msg(<<"Failed to fetch">>)}

SyntaxError == [t |-> "SyntaxError", message |-> <<"Unexpected token < in JSON at position 0">>]

ScenarioExtracted ==
  Obj([vendor_name |-> Str("Acme Co"), total_amount |-> Str("123.45"),
       dates_found |-> Arr(<<Str("2024-01-01")>>)])

(* response bodies: the raw text and what response.json() yields for it *)
Bodies ==
  { [text |-> "<html>", json |-> SyntaxError],
    [text |-> "null", json |-> null],
    [text |-> "5", json |-> Num(5)],
    [text |-> "[]", json |-> Arr(<<>>)],
    [text |-> "{}", json |-> Obj(NoProps)],
    [text |-> "{success,filename}",
     json |-> Obj([success |-> Bool(TRUE), filename |-> Str("a.pdf")])],
    [text |-> "{extracted_data:{...}}",
     json |-> Obj([extracted_data |-> ScenarioExtracted])],
    [text |-> "{detail:unsupported file type}",
     json |-> Obj([detail |-> Str("unsupported file type")])],
    [text |-> "{detail:''}",
     json |-> Obj([detail |-> Str("")])] }

ErrorBodies ==
  { [text |-> "internal error", json |-> SyntaxError],
    [text |-> "{detail:bad request}", json |-> Obj([detail |-> Str("bad request")])] }

(* a Response: ok is true exactly for the 2xx statuses *)
Responses ==
  { [status |-> 200, ok |-> TRUE, body |-> b] : b \in Bodies } \cup
  { [status |-> 500, ok |-> FALSE, body |-> b] : b \in ErrorBodies }

-----------------------------------------------------------------------------
(* A suspended handleUpload: where it awaits, and its locals *)

(* requests is the bag of the suspended invocations: [phase, formData] at  *)
(* await fetch, [phase, formData, response] at await text()/json()        *)
InFlight == BagToSet(requests)

(* the invocation suspended at `await fetch(...)` *)
AwaitingFetch(formData) == [phase |-> "fetch", formData |-> formData]

Init ==
  /\ file = null
  /\ loading = FALSE
  /\ result = null
  /\ error = null
  /\ processingMethod = "ai"
  /\ requests = EmptyBag
  /\ last = [op |-> "mount", file |-> null, writes |-> <<>>]

-----------------------------------------------------------------------------
(* The rendered view *)

disabled_noLoading == ~Truthy(file)

(* disabled={!file || loading} on the upload button *)
disabled == ~Truthy(file) \/ loading

-----------------------------------------------------------------------------
(* handleFileChange *)

handleFileChange_keepError(selectedFile) ==
  /\ file' = selectedFile
  /\ result' = null
  /\ UNCHANGED <<error, loading, processingMethod, requests>>
  /\ last' = [op |-> "selectFile", file |-> selectedFile,
              writes |-> <<"setFile", "setResult">>]

handleFileChange(selectedFile) ==
  /\ file' = selectedFile
  /\ result' = null
  /\ error' = null
  /\ UNCHANGED <<loading, processingMethod, requests>>
  /\ last' = [op |-> "selectFile", file |-> selectedFile,
              writes |-> <<"setFile", "setResult", "setError">>]

(* onChange of the two radio inputs *)
setProcessingMethod(value) ==
  /\ processingMethod' = value
  /\ UNCHANGED <<file, loading, result, error, requests>>
  /\ last' = [op |-> "setMethod", file |-> file, writes |-> <<"setProcessingMethod">>]

-----------------------------------------------------------------------------
(* handleUpload, up to its first await *)

(* the FormData built before the try block *)
FormData == [file |-> file, processing_method |-> processingMethod]

NoFileMessage == Msg(<<"Please select a file first">>)

(* the synchronous part after the !file check: setLoading(true) ... fetch(...) *)
startRequest ==
  /\ BagCardinality(requests) < MaxInFlight
  /\ loading' = TRUE
  /\ error' = null
  /\ result' = null
  /\ requests' = requests (+) SetToBag({AwaitingFetch(FormData)})
  /\ UNCHANGED <<file, processingMethod>>
  /\ last' = [op |-> "upload", file |-> file,
              writes |-> <<"setLoading", "setError", "setResult">>]

handleUpload_noReturn ==
  IF ~Truthy(file)
  THEN /\ BagCardinality(requests) < MaxInFlight
       /\ loading' = TRUE
       /\ error' = null
       /\ result' = null
       /\ requests' = requests (+) SetToBag({AwaitingFetch(FormData)})
       /\ UNCHANGED <<file, processingMethod>>
       /\ last' = [op |-> "upload", file |-> file,
                   writes |-> <<"setError", "setLoading", "setError", "setResult">>]
  ELSE startRequest

handleUpload_keepError ==
  IF ~Truthy(file)
  THEN /\ error' = NoFileMessage
       /\ UNCHANGED <<file, loading, result, processingMethod, requests>>
       /\ last' = [op |-> "upload", file |-> file, writes |-> <<"setError">>]
  ELSE /\ BagCardinality(requests) < MaxInFlight
       /\ loading' = TRUE
       /\ result' = null
       /\ requests' = requests (+) SetToBag({AwaitingFetch(FormData)})
       /\ UNCHANGED <<file, processingMethod, error>>
       /\ last' = [op |-> "upload", file |-> file,
                   writes |-> <<"setLoading", "setResult">>]

handleUpload ==
  IF ~Truthy(file)
  THEN /\ error' = NoFileMessage
       /\ UNCHANGED <<file, loading, result, processingMethod, requests>>
       /\ last' = [op |-> "upload", file |-> file, writes |-> <<"setError">>]
  ELSE startRequest

(* a click on the upload button: a disabled button dispatches no click *)
onClick ==
  /\ ~disabled
  /\ handleUpload

-----------------------------------------------------------------------------
(* handleUpload, after its awaits *)

ErrorPrefix == "Error processing invoice: "

EmptyExtracted_nullDates ==
  Obj([vendor_name |-> null, vendor_email |-> null, vendor_phone |-> null,
       invoice_number |-> null, customer_number |-> null, vat_number |-> null,
       total_amount |-> null, dates_found |-> null])

(* the structure assigned to data.extracted_data when it is missing *)
EmptyExtracted ==
  Obj([vendor_name |-> null, vendor_email |-> null, vendor_phone |-> null,
       invoice_number |-> null, customer_number |-> null, vat_number |-> null,
       total_amount |-> null, dates_found |-> Arr(<<>>)])

Thrown(message) == [thrown |-> TRUE, message |-> message]

Stored(data) == [thrown |-> FALSE, data |-> data]

(* throw new Error(`HTTP error! status: ${response.status} - ${errorText}`) *)
HttpError(response) ==
  Thrown(<<"HTTP error! status: ", ToString(response.status), " - ", response.body.text>>)

(* the checks on the parsed body, from `const data = await response.json()` on *)
Validate(data) ==
  IF ~Truthy(data) \/ TypeOf(data) # "object"
  THEN Thrown(<<"Invalid response format from server">>)
  ELSE IF Truthy(Get(data, "detail"))
  THEN Thrown(<<"Server error: ", Interp(Get(data, "detail"))>>)
  ELSE IF ~Truthy(Get(data, "extracted_data"))
  THEN Stored(Put(data, "extracted_data", EmptyExtracted))
  ELSE Stored(data)

(* setResult(data), the last statement of the try block *)
setResultData(data) ==
  /\ result' = data
  /\ error' = error

(* the catch block *)
catch(message) ==
  /\ error' = Msg(<<ErrorPrefix>> \o message)
  /\ result' = result

finally_skip == loading' = loading

(* the finally block *)
finally == loading' = FALSE

settle_noFinallyOnCatch(r, outcome) ==
  /\ requests' = requests (-) SetToBag({r})
  /\ IF outcome.thrown
     THEN /\ catch(outcome.message)
          /\ loading' = loading
          /\ last' = [op |-> "settle", file |-> r.formData.file,
                      writes |-> <<"setError">>]
     ELSE /\ setResultData(outcome.data)
          /\ finally
          /\ last' = [op |-> "settle", file |-> r.formData.file,
                      writes |-> <<"setResult", "setLoading">>]
  /\ UNCHANGED <<file, processingMethod>>

settle_dropStale(r, outcome) ==
  /\ requests' = requests (-) SetToBag({r})
  /\ IF r.formData.file # file
     THEN /\ UNCHANGED <<result, error>>
          /\ last' = [op |-> "settle", file |-> r.formData.file,
                      writes |-> <<"setLoading">>]
     ELSE IF outcome.thrown
     THEN /\ catch(outcome.message)
          /\ last' = [op |-> "settle", file |-> r.formData.file,
                      writes |-> <<"setError", "setLoading">>]
     ELSE /\ setResultData(outcome.data)
          /\ last' = [op |-> "settle", file |-> r.formData.file,
                      writes |-> <<"setResult", "setLoading">>]
  /\ finally
  /\ UNCHANGED <<file, processingMethod>>

(* the run of handleUpload from the await that ends it to its return:     *)
(* setResult or the catch block, then the finally block                    *)
settle(r, outcome) ==
  /\ requests' = requests (-) SetToBag({r})
  /\ IF outcome.thrown
     THEN /\ catch(outcome.message)
          /\ last' = [op |-> "settle", file |-> r.formData.file,
                      writes |-> <<"setError", "setLoading">>]
     ELSE /\ setResultData(outcome.data)
          /\ last' = [op |-> "settle", file |-> r.formData.file,
                      writes |-> <<"setResult", "setLoading">>]
  /\ finally
  /\ UNCHANGED <<file, processingMethod>>

(* await fetch(...) rejects: transport failure *)
fetchRejects(r, err) ==
  /\ r.phase = "fetch"
  /\ settle(r, Thrown(err.parts))

(* await fetch(...) resolves; the handler goes on to await response.text() *)
(* or response.json()                                                      *)
fetchResolves(r, response) ==
  /\ r.phase = "fetch"
  /\ requests' = (requests (-) SetToBag({r})) (+)
                   SetToBag({[phase |-> IF ~response.ok THEN "text" ELSE "json",
                              formData |-> r.formData, response |-> response]})
  /\ UNCHANGED <<file, loading, result, error, processingMethod>>
  /\ last' = [op |-> "response", file |-> r.formData.file, writes |-> <<>>]

(* await response.text() resolves on a non-ok response *)
textResolves(r) ==
  /\ r.phase = "text"
  /\ settle(r, HttpError(r.response))

(* await response.json() resolves or rejects on an ok response *)
jsonSettles(r) ==
  /\ r.phase = "json"
  /\ LET parsed == r.response.body.json IN
       IF parsed.t = "SyntaxError"
       THEN settle(r, Thrown(parsed.message))
       ELSE settle(r, Validate(parsed))

-----------------------------------------------------------------------------
(* Specifications *)

SelectFile == \E selectedFile \in SelectedFiles : handleFileChange(selectedFile)

SelectMethod == \E value \in ProcessingMethods : setProcessingMethod(value)

FetchRejects == \E r \in InFlight, err \in TransportErrors : fetchRejects(r, err)

FetchResolves == \E r \in InFlight, response \in Responses : fetchResolves(r, response)

TextResolves == \E r \in InFlight : textResolves(r)

JsonSettles == \E r \in InFlight : jsonSettles(r)

Network == FetchRejects \/ FetchResolves \/ TextResolves \/ JsonSettles

(* the component as rendered: handleUpload runs only from the button *)
Next == SelectFile \/ SelectMethod \/ onClick \/ FetchRejects \/ FetchResolves \/ TextResolves \/ JsonSettles

Spec == Init /\ [][Next]_vars

(* the same, with every started request eventually answered and every     *)
(* continuation of a settled promise eventually run by the event loop      *)
FairSpec == Spec /\ WF_vars(Network)

(* the handlers called directly, without the button's disabled attribute *)
NextDirect == SelectFile \/ SelectMethod \/ handleUpload \/ FetchRejects \/ FetchResolves \/ TextResolves \/ JsonSettles

SpecDirect == Init /\ [][NextDirect]_vars

-----------------------------------------------------------------------------
(* Properties *)

(* the request whose handleUpload returns in this step *)
Settled(r) == BagIn(r, requests) /\ requests' = requests (-) SetToBag({r})

C2_LoadingOnlyInFlight == loading => InFlight # {}

C2_Witness ==
  /\ InFlight = {}
  /\ ~loading
  /\ last.op = "selectFile"
  /\ last.file # null
  /\ processingMethod = "traditional"

(* C3: handleUpload invoked while file is absent sets error to the fixed  *)
(* message "Please select a file first", issues no request, does not set   *)
(* loading and changes neither file nor result (nor the method).           *)
C3_NoFileSubmit ==
  [][(last'.op = "upload" /\ ~Truthy(file)) =>
        /\ error' = Msg(<<"Please select a file first">>)
        /\ requests' = requests
        /\ loading' = loading
        /\ file' = file
        /\ result' = result
        /\ processingMethod' = processingMethod]_vars

C3_Witness ==
  /\ last.op = "upload"
  /\ ~Truthy(file)
  /\ error = Msg(<<"Please select a file first">>)
  /\ result # null

(* C4: handleFileChange, in any state (a request in flight included),     *)
(* sets file to the given handle (possibly absent), clears result and      *)
(* error, issues no request and leaves loading and the method unchanged.   *)
C4_SelectFileEffect ==
  [][last'.op = "selectFile" =>
        /\ file' = last'.file
        /\ result' = null
        /\ error' = null
        /\ requests' = requests
        /\ loading' = loading
        /\ processingMethod' = processingMethod]_vars

C4_Witness ==
  /\ last.op = "selectFile"
  /\ file = undefined
  /\ loading
  /\ InFlight # {}

(* the answer held by a suspended handleUpload carries a detail field *)
CarriesDetail(r) ==
  /\ r.phase \in {"text", "json"}
  /\ r.response.body.json.t = "obj"
  /\ "detail" \in DOMAIN r.response.body.json.f

(* C5: the settlement of a submit whose response carries a detail field   *)
(* (whatever its value, whatever the HTTP status) stores an error and no   *)
(* result.                                                                 *)
C5_DetailIsError ==
  [][\A r \in InFlight : (Settled(r) /\ CarriesDetail(r)) =>
        (error' # null /\ result' = null)]_vars

(* the answer is a success status with a parsed object that has neither   *)
(* extracted_data nor detail                                               *)
LacksExtracted(r) ==
  /\ r.phase = "json"
  /\ r.response.ok
  /\ r.response.body.json.t = "obj"
  /\ "extracted_data" \notin DOMAIN r.response.body.json.f
  /\ "detail" \notin DOMAIN r.response.body.json.f

RecognizedKeys ==
  {"vendor_name", "vendor_email", "vendor_phone", "invoice_number",
   "customer_number", "vat_number", "total_amount", "dates_found"}

(* result is the response data with a synthesized extracted_data: every   *)
(* recognized key null, dates_found an empty sequence, the rest unchanged  *)
PatchedFrom(res, data) ==
  /\ res.t = "obj"
  /\ DOMAIN res.f = (DOMAIN data.f) \cup {"extracted_data"}
  /\ \A k \in DOMAIN data.f : res.f[k] = data.f[k]
  /\ res.f["extracted_data"].t = "obj"
  /\ \A k \in DOMAIN res.f["extracted_data"].f :
        IF k = "dates_found"
        THEN /\ res.f["extracted_data"].f[k].t = "arr"
             /\ res.f["extracted_data"].f[k].a = <<>>
        ELSE res.f["extracted_data"].f[k] = null

(* C6 as stated: the synthesized extracted_data has exactly nine keys.     *)
C6_NineKeys ==
  [][\A r \in InFlight : (Settled(r) /\ LacksExtracted(r)) =>
        /\ PatchedFrom(result', r.response.body.json)
        /\ Cardinality(DOMAIN result'.f["extracted_data"].f) = 9]_vars

(* C6 amended: for a successful response whose parsed object has neither  *)
(* extracted_data nor detail, the stored result's extracted_data has       *)
(* exactly the eight recognized keys, each null except dates_found, which  *)
(* is an empty sequence; all other fields are stored unchanged.            *)
C6_EightKeys ==
  [][\A r \in InFlight : (Settled(r) /\ LacksExtracted(r)) =>
        /\ PatchedFrom(result', r.response.body.json)
        /\ DOMAIN result'.f["extracted_data"].f = RecognizedKeys
        /\ Cardinality(DOMAIN result'.f["extracted_data"].f) = 8
        /\ error' = null]_vars

C6_Witness ==
  /\ last.op = "settle"
  /\ result # null
  /\ "success" \in DOMAIN result.f
  /\ "extracted_data" \in DOMAIN result.f
  /\ result.f["extracted_data"].f["dates_found"] = Arr(<<>>)

(* C7: every submit that set loading is followed, once its request        *)
(* settles, by loading = false, and setLoading(false) is the last state    *)
(* change that submit makes.                                               *)
C7_LoadingReset ==
  /\ [][last'.op = "settle" =>
          /\ loading' = FALSE
          /\ last'.writes # <<>>
          /\ last'.writes[Len(last'.writes)] = "setLoading"
          /\ BagCardinality(requests') = BagCardinality(requests) - 1]_vars
  /\ (loading ~> ~loading)

C7_Witness == last.op = "settle" /\ ~loading /\ error # null /\ error # NoFileMessage

(* C8: there is no cancellation: the settlement of a request whose file   *)
(* is no longer the selected one still writes result or error.             *)
C8_StaleSettlementWrites ==
  [][\A r \in InFlight : (Settled(r) /\ r.formData.file # file) =>
        /\ (result' # null) # (error' # null)
        /\ (result' # result \/ error' # error)
        /\ file' = file
        /\ last'.file = r.formData.file]_vars

C8_Witness ==
  /\ last.op = "settle"
  /\ Truthy(file)
  /\ last.file # file
  /\ result # null

(* C9 as stated: nothing prevents a second submit while a request is in   *)
(* flight.                                                                 *)
C9_NoGuard == (InFlight # {} /\ Truthy(file)) => ~disabled

(* C9 amended: the upload button is disabled while loading, so a second   *)
(* submit cannot be triggered while a request is in flight and at most     *)
(* one request is outstanding at a time.                                   *)
C9_OneRequest ==
  /\ BagCardinality(requests) <= 1
  /\ InFlight # {} => disabled

C9_Witness ==
  /\ InFlight # {}
  /\ Truthy(file)
  /\ disabled
  /\ last.op = "response"

(* the request settling in slot s fails: transport failure, non-success   *)
(* status, unparsable or non-object body, or a detail field                *)
Fails(r) ==
  \/ r.phase = "fetch"
  \/ r.phase = "text"
  \/ /\ r.phase = "json"
     /\ \/ r.response.body.json.t \notin {"obj", "arr"}
        \/ CarriesDetail(r)

(* C10: every failure of a submit that issued a request becomes the error *)
(* field, prefixed with "Error processing invoice: ", and result stays     *)
(* absent.                                                                 *)
C10_FailuresBecomeErrors ==
  [][\A r \in InFlight : (Settled(r) /\ Fails(r)) =>
        /\ error' # null
        /\ error'.parts[1] = "Error processing invoice: "
        /\ result' = null]_vars

====
